---- MODULE Spec2Model ----
(***************************************************************************)
(* Model of zerver/lib/message.py: the message dict builder                *)
(* (MessageDict.build_message_dict), its two adapters, the payload codec   *)
(* and the cached accessor message_to_dict_json.                           *)
(*                                                                         *)
(* A call is run by a worker p and is split at the blocking boundaries of  *)
(* the code: the cache lookup, the record re-fetch, the render, the save   *)
(* of the rendered content and the cache store.  Between two steps of a    *)
(* call the environment may delete a row or let time pass.                 *)
(***************************************************************************)
EXTENDS Integers, Sequences, FiniteSets, TLC

(* ------------------------------ bounds -------------------------------- *)

\* renderer versions are 1..MaxVersion
MaxVersion == 2
\* seconds that pass in one Tick of the clock
TickSeconds == 86400
\* the recipient resolver returns at most this many participants
MaxParticipants == 3
\* the longest list among the values the codec is run on
MaxListLen == 2

\* the workers; the sequential specifications run the first one only
Procs == {1, 2}
SeqProcs == {1}
\* the messages of the record store
MsgIds == {1, 2}
\* the users: senders and participants
Users == {1, 2, 3, 4}

(* --------------------------- python values ---------------------------- *)

\* Python's None, for a text or a list
None == [kind |-> "None", of |-> 0, ver |-> 0]
\* None for rendered_content_version (an Optional[int]); versions start at 1
NoVersion == 0
\* the raw body of message m
RawBody(m) == [kind |-> "raw", of |-> m, ver |-> 0]
\* the HTML that renderer version v makes of the body of message m
Html(m, v) == [kind |-> "html", of |-> m, ver |-> v]
\* u'<p>[Zulip note: Sorry, we could not understand the formatting of your message]</p>'
FallbackNotice == [kind |-> "fallback", of |-> 0, ver |-> 0]

\* a datetime, and datetime_to_timestamp of it
DateTime(secs) == [kind |-> "datetime", epoch |-> secs]
datetime_to_timestamp(dt) == dt.epoch

\* text as the sequence of its code points; Python's < on text
RECURSIVE StrLess(_, _)
StrLess(s, t) ==
    IF t = <<>> THEN FALSE
    ELSE IF s = <<>> THEN TRUE
    ELSE IF Head(s) # Head(t) THEN Head(s) < Head(t)
    ELSE StrLess(Tail(s), Tail(t))

(* ------------------------------- users -------------------------------- *)

\* emails: "a", "b", "ab", "B" (code points; "B" < "a" < "ab" < "b")
EmailOf(u) ==
    CASE u = 1 -> <<97>>
      [] u = 2 -> <<98>>
      [] u = 3 -> <<97, 98>>
      [] OTHER -> <<66>>

\* the participant descriptor of user u, as the recipient resolver gives it
Descriptor(u) ==
    [email |-> EmailOf(u), domain |-> "x.com", full_name |-> u,
     short_name |-> u, id |-> u, is_mirror_dummy |-> (u = 4)]

\* the sequences of 1..n distinct users
DistinctSeqs(n) ==
    {s \in UNION {[1..k -> Users] : k \in 1..n} :
        \A i, j \in DOMAIN s : i # j => s[i] # s[j]}

\* what get_display_recipient_by_id returns: a stream name or a list
StreamName(n) == [kind |-> "name", name |-> n, list |-> <<>>]
ParticipantList(us) ==
    [kind |-> "list", name |-> "", list |-> [i \in DOMAIN us |-> Descriptor(us[i])]]

\* a message row: the sender, the recipient and what the resolver gives for it
MessageRows ==
    {[sender |-> s, recipient_type |-> "STREAM", resolved |-> StreamName(n),
      last_edit_time |-> None, edit_history |-> None] :
        s \in Users, n \in {"general", "devel"}}
    \cup
    {[sender |-> s, recipient_type |-> t, resolved |-> ParticipantList(us),
      last_edit_time |-> None, edit_history |-> None] :
        s \in Users, t \in {"PERSONAL", "HUDDLE"}, us \in DistinctSeqs(MaxParticipants)}

(* ------------------------------- state -------------------------------- *)

VARIABLES
    bugdown_version,  \* bugdown.version, the version of the running renderer
    msgs,             \* the rows of the record store: sender, recipient, edit fields
    db,               \* per message: whether the row exists, and its stored render
    cache,            \* the cache store: key -> entry with the seconds it has left
    pc,               \* per worker: where its call stands
    call              \* per worker: the arguments and locals of its call

vars == <<bugdown_version, msgs, db, cache, pc, call>>

\* the entry points of the module
Entries ==
    {"message_to_dict", "message_to_dict_json", "to_dict_uncached_helper",
     "build_dict_from_raw_db_row"}

\* the entry points behind the cache
CachedEntries == {"message_to_dict", "message_to_dict_json"}

\* a timeout of one hour
CACHE_TIMEOUT_OneHour == 60 * 60

\* timeout=3600*24 of the decorator of message_to_dict_json
CACHE_TIMEOUT == 3600 * 24

\* a key made of the message id alone
to_dict_cache_key_IdOnly(message_id, apply_markdown) ==
    <<"message_dict", message_id, 0>>

\* to_dict_cache_key: 'message_dict:%d:%d' % (message.id, apply_markdown)
to_dict_cache_key(message_id, apply_markdown) ==
    <<"message_dict", message_id, IF apply_markdown THEN 1 ELSE 0>>

Keys == {to_dict_cache_key(m, a) : m \in MsgIds, a \in BOOLEAN}

NoResult == [kind |-> "none"]
NoEntry == [present |-> FALSE, val |-> NoResult, ttl |-> 0]

\* the stored render of a row never rendered
Unrendered == [exists |-> TRUE, rendered_content |-> None,
               rendered_content_version |-> NoVersion]

\* a worker that runs no call
IdleCall ==
    [entry |-> "none", m |-> 0, apply_markdown |-> FALSE, message |-> "None",
     msg_rendered_content |-> None, msg_rendered_content_version |-> NoVersion,
     arg_rendered_content |-> None, rendered_content |-> None,
     rendered_content_version |-> NoVersion,
     n_fetch |-> 0, n_render |-> 0, n_save |-> 0, n_cache_set |-> 0,
     saved |-> "no", outcome |-> "none", arg |-> NoResult, result |-> NoResult]

(* ------------------------------- codec -------------------------------- *)

\* the values of Python that JSON has a form for, each a record of one field
\* named after its type
PyInt(n) == [int |-> n]
PyStr(s) == [str |-> s]
PyBool(b) == [bool |-> b]
PyNone == [none |-> 0]
PyList(s) == [list |-> s]
PyDict(f) == [dict |-> f]

\* the type of a Python value, and what it holds
PyType(x) == CHOOSE k \in DOMAIN x : TRUE
PyVal(x) == x[PyType(x)]

\* the kind of a piece of JSON text
JsonKind(y) == CHOOSE k \in DOMAIN y : TRUE

\* ujson.dumps: the JSON text of a value, as the tree of its grammar: a number, a
\* string, one of the literals true, false and null, an array or an object
RECURSIVE ujson_dumps(_)
ujson_dumps(x) ==
    CASE PyType(x) = "int" -> [number |-> x.int]
      [] PyType(x) = "str" -> [string |-> x.str]
      [] PyType(x) = "bool" -> [literal |-> IF x.bool THEN "true" ELSE "false"]
      [] PyType(x) = "none" -> [literal |-> "null"]
      [] PyType(x) = "list" ->
            [array |-> [i \in DOMAIN x.list |-> ujson_dumps(x.list[i])]]
      [] PyType(x) = "dict" ->
            [object |-> [k \in DOMAIN x.dict |-> ujson_dumps(x.dict[k])]]

\* ujson.loads: the value a JSON text stands for
RECURSIVE ujson_loads(_)
ujson_loads(y) ==
    CASE JsonKind(y) = "number" -> PyInt(y.number)
      [] JsonKind(y) = "string" -> PyStr(y.string)
      [] JsonKind(y) = "literal" ->
            IF y.literal = "null" THEN PyNone ELSE PyBool(y.literal = "true")
      [] JsonKind(y) = "array" ->
            PyList([i \in DOMAIN y.array |-> ujson_loads(y.array[i])])
      [] JsonKind(y) = "object" ->
            PyDict([k \in DOMAIN y.object |-> ujson_loads(y.object[k])])

\* dict_with_str_keys: the same dict with each key of the top level made a str
dict_with_str_keys(d) == PyDict([k \in DOMAIN PyVal(d) |-> PyVal(d)[k]])

\* force_bytes and bytes.decode("utf-8"): text as its UTF-8 bytes, and back
force_bytes(text) == [utf8 |-> text]
decode_utf8(bytes) == bytes.utf8

\* zlib.compress and zlib.decompress: bytes as their compressed form, and back
zlib_compress(bytes) == [kind |-> "bytes", zlib |-> bytes]
zlib_decompress(compressed) == compressed.zlib

\* a stringify that dumps the JSON text once more, as a string
stringify_message_dict_DoubleDumps(message_dict) ==
    zlib_compress(force_bytes(ujson_dumps(PyStr(ujson_dumps(message_dict)))))

\* stringify_message_dict: zlib.compress(force_bytes(ujson.dumps(message_dict)))
stringify_message_dict(message_dict) ==
    zlib_compress(force_bytes(ujson_dumps(message_dict)))

\* extract_message_dict: dict_with_str_keys(ujson.loads(zlib.decompress(b).decode("utf-8")))
extract_message_dict(message_bytes) ==
    dict_with_str_keys(ujson_loads(decode_utf8(zlib_decompress(message_bytes))))

(* --------------------------- the dict builder -------------------------- *)

\* Message.need_to_render_content(rendered_content, rendered_content_version, bugdown.version)
need_to_render_content(rendered_content, rendered_content_version, version) ==
    \/ rendered_content = None
    \/ rendered_content_version = NoVersion
    \/ rendered_content_version < version

\* recip, the sender's own descriptor (lines 149-154)
SenderDescriptor(sender) ==
    [email |-> EmailOf(sender), domain |-> Descriptor(sender).domain,
     full_name |-> Descriptor(sender).full_name,
     short_name |-> Descriptor(sender).short_name,
     id |-> sender, is_mirror_dummy |-> Descriptor(sender).is_mirror_dummy]

\* lines 141-145 testing for PERSONAL instead of STREAM
DisplayType_OnlyPersonalPrivate(recipient_type) ==
    IF recipient_type = "PERSONAL" THEN "private" ELSE "stream"

\* display_type (lines 141-145)
DisplayType(recipient_type) ==
    IF recipient_type = "STREAM" THEN "stream" ELSE "private"

\* lines 155-158 without the elif branch: a sender whose email is the greater
\* one is not added
DisplayRecipient_NoElif(recipient_type, display_recipient, sender) ==
    IF recipient_type = "STREAM" THEN display_recipient
    ELSE IF Len(display_recipient.list) = 1
    THEN LET recip == SenderDescriptor(sender)
             first == display_recipient.list[1]
         IN  IF StrLess(recip.email, first.email)
             THEN [display_recipient EXCEPT !.list = <<recip, first>>]
             ELSE display_recipient
    ELSE display_recipient

\* lines 155-158 with the sender put first whenever the emails differ
DisplayRecipient_SenderFirst(recipient_type, display_recipient, sender) ==
    IF recipient_type = "STREAM" THEN display_recipient
    ELSE IF Len(display_recipient.list) = 1
    THEN LET recip == SenderDescriptor(sender)
             first == display_recipient.list[1]
         IN  IF recip.email # first.email
             THEN [display_recipient EXCEPT !.list = <<recip, first>>]
             ELSE display_recipient
    ELSE display_recipient

\* lines 155-158 run for a list of any length: the sender is put in front of a
\* longer list
DisplayRecipient_AnyLength(recipient_type, display_recipient, sender) ==
    IF recipient_type = "STREAM" THEN display_recipient
    ELSE LET recip == SenderDescriptor(sender)
             first == display_recipient.list[1]
         IN  IF Len(display_recipient.list) # 1
             THEN [display_recipient EXCEPT !.list = <<recip>> \o display_recipient.list]
             ELSE IF StrLess(recip.email, first.email)
             THEN [display_recipient EXCEPT !.list = <<recip, first>>]
             ELSE IF StrLess(first.email, recip.email)
             THEN [display_recipient EXCEPT !.list = <<first, recip>>]
             ELSE display_recipient

\* display_recipient after lines 141-158
DisplayRecipient(recipient_type, display_recipient, sender) ==
    IF recipient_type = "STREAM" THEN display_recipient
    ELSE IF Len(display_recipient.list) = 1
    THEN LET recip == SenderDescriptor(sender)
             first == display_recipient.list[1]
         IN  IF StrLess(recip.email, first.email)
             THEN [display_recipient EXCEPT !.list = <<recip, first>>]
             ELSE IF StrLess(first.email, recip.email)
             THEN [display_recipient EXCEPT !.list = <<first, recip>>]
             ELSE display_recipient
    ELSE display_recipient

\* lines 204-207 without the test for None
ContentFields_NoFallback(apply_markdown, rendered_content, content) ==
    IF apply_markdown
    THEN [content |-> rendered_content, content_type |-> "text/html"]
    ELSE [content |-> content, content_type |-> "text/x-markdown"]

\* line 212 naming the type of line 209
ContentFields_RawAsHtml(apply_markdown, rendered_content, content) ==
    IF apply_markdown
    THEN [content |-> IF rendered_content # None THEN rendered_content
                      ELSE FallbackNotice,
          content_type |-> "text/html"]
    ELSE [content |-> content, content_type |-> "text/html"]

\* content and content_type (lines 204-212)
ContentFields(apply_markdown, rendered_content, content) ==
    IF apply_markdown
    THEN [content |-> IF rendered_content # None THEN rendered_content
                      ELSE FallbackNotice,
          content_type |-> "text/html"]
    ELSE [content |-> content, content_type |-> "text/x-markdown"]

\* the edit fields with edit_history left as the stored text
EditFields_RawHistory(row) ==
    IF row.last_edit_time # None
    THEN [last_edit_timestamp |-> datetime_to_timestamp(row.last_edit_time),
          edit_history |-> PyStr(row.edit_history)]
    ELSE <<>>

\* the keys an edited message adds to obj (lines 178-180)
EditFields(row) ==
    IF row.last_edit_time # None
    THEN [last_edit_timestamp |-> datetime_to_timestamp(row.last_edit_time),
          edit_history |-> ujson_loads(row.edit_history)]
    ELSE <<>>

\* obj as build_message_dict returns it (lines 160-214)
BuildObj(message_id, row, apply_markdown, rendered_content) ==
    LET sender == SenderDescriptor(row.sender)
        cf == ContentFields(apply_markdown, rendered_content, RawBody(message_id))
        fixed ==
            [id |-> message_id,
             sender_email |-> sender.email,
             sender_full_name |-> sender.full_name,
             sender_short_name |-> sender.short_name,
             sender_domain |-> sender.domain,
             sender_id |-> sender.id,
             type |-> DisplayType(row.recipient_type),
             display_recipient |->
                 DisplayRecipient(row.recipient_type, row.resolved, row.sender),
             recipient_id |-> message_id,
             subject |-> [kind |-> "subject", of |-> message_id],
             timestamp |-> datetime_to_timestamp(DateTime(message_id)),
             gravatar_hash |-> [kind |-> "gravatar_hash", email |-> sender.email],
             avatar_url |-> [kind |-> "avatar_url", email |-> sender.email],
             client |-> "website",
             subject_links |-> <<>>,
             content |-> cf.content,
             content_type |-> cf.content_type]
        edit == EditFields(row)
    IN  [k \in DOMAIN fixed \cup DOMAIN edit |->
            IF k \in DOMAIN edit THEN edit[k] ELSE fixed[k]]

\* a participant descriptor as Python values: text, an int id and a bool
PyOfDescriptor(r) ==
    PyDict([k \in DOMAIN r |->
        IF k = "id" THEN PyInt(r[k])
        ELSE IF k = "is_mirror_dummy" THEN PyBool(r[k])
        ELSE PyStr(r[k])])

\* display_recipient as Python values: the stream name, or the list of descriptors
PyOfRecipient(dr) ==
    IF dr.kind = "name" THEN PyStr(dr.name)
    ELSE PyList([i \in DOMAIN dr.list |-> PyOfDescriptor(dr.list[i])])

\* the keys of obj that hold an int
IntKeys == {"id", "sender_id", "recipient_id", "timestamp", "last_edit_timestamp"}

\* obj as the Python dict it is: ints, text, the recipient, lists (lines 160-212)
PyOfObj(obj) ==
    PyDict([k \in DOMAIN obj |->
        IF k \in IntKeys THEN PyInt(obj[k])
        ELSE IF k = "display_recipient" THEN PyOfRecipient(obj[k])
        ELSE IF k = "subject_links"
        THEN PyList([i \in DOMAIN obj[k] |-> PyStr(obj[k][i])])
        ELSE IF k = "edit_history" THEN obj[k]
        ELSE PyStr(obj[k])])

(* ------------------------------ the calls ------------------------------ *)

\* the rows of the main specification: a personal message of user 1 to user 2,
\* and an edited stream message of user 2
MainRows ==
    [m \in MsgIds |->
        IF m = 1
        THEN [sender |-> 1, recipient_type |-> "PERSONAL",
              resolved |-> ParticipantList(<<2>>),
              last_edit_time |-> None, edit_history |-> None]
        ELSE [sender |-> 2, recipient_type |-> "STREAM",
              resolved |-> StreamName("general"),
              last_edit_time |-> DateTime(7),
              edit_history |->
                  ujson_dumps(PyList(<<PyDict([prev_subject |-> PyStr("old"),
                                               timestamp |-> PyInt(7)])>>))]]

Init ==
    /\ bugdown_version = 1
    /\ msgs = MainRows
    /\ db = [m \in MsgIds |-> Unrendered]
    /\ cache = [k \in Keys |-> NoEntry]
    /\ pc = [p \in Procs |-> "idle"]
    /\ call = [p \in Procs |-> IdleCall]

\* line 182 without its test of apply_markdown
AfterNeedToRender_IgnoresFlag(c) ==
    IF need_to_render_content(c.rendered_content, c.rendered_content_version,
                              bugdown_version)
    THEN IF c.message = "None" THEN "fetch" ELSE "render"
    ELSE "content"

\* line 183 testing only whether a rendered body is stored
AfterNeedToRender_OnlyAbsent(c) ==
    IF c.apply_markdown /\ c.rendered_content = None
    THEN IF c.message = "None" THEN "fetch" ELSE "render"
    ELSE "content"

\* lines 184-195 run before the test of line 183: a build without a message
\* object fetches it first
AfterNeedToRender_FetchFirst(c) ==
    IF c.message = "None" THEN "fetch"
    ELSE IF c.apply_markdown
            /\ need_to_render_content(c.rendered_content, c.rendered_content_version,
                                      bugdown_version)
    THEN "render"
    ELSE "content"

\* where build_message_dict goes after line 183: to the re-fetch, to the render,
\* or straight to the content of lines 204-212
AfterNeedToRender(c) ==
    IF c.apply_markdown
       /\ need_to_render_content(c.rendered_content, c.rendered_content_version,
                                 bugdown_version)
    THEN IF c.message = "None" THEN "fetch" ELSE "render"
    ELSE "content"

\* lines 204-214, and for the cached accessor line 47: the value the build hands back
BuildResult(c) ==
    LET obj == BuildObj(c.m, msgs[c.m], c.apply_markdown, c.rendered_content)
    IN  IF c.entry \in CachedEntries
        THEN stringify_message_dict(PyOfObj(obj))
        ELSE [kind |-> "dict", dict |-> PyOfObj(obj)]

\* where a call goes when message_to_dict_json has returned: message_to_dict goes
\* on to line 35
AfterJson(c) == IF c.entry = "message_to_dict" THEN "extract" ELSE "done"

\* the build has its content: an uncached build returns, the cached accessor stores
Completed(p, c) ==
    IF c.entry \in CachedEntries
    THEN /\ pc' = [pc EXCEPT ![p] = "cache_set"]
         /\ call' = [call EXCEPT ![p] = [c EXCEPT !.result = BuildResult(c)]]
    ELSE IF c.entry = "re_render_content_for_management_command"
    THEN /\ pc' = [pc EXCEPT ![p] = "done"]
         /\ call' = [call EXCEPT ![p] = [c EXCEPT !.outcome = "rerendered"]]
    ELSE /\ pc' = [pc EXCEPT ![p] = "done"]
         /\ call' = [call EXCEPT ![p] =
                [c EXCEPT !.result = BuildResult(c), !.outcome = "returned"]]

\* build_message_dict from line 133 to the test of line 183
StartBuild(p, c) ==
    LET next == AfterNeedToRender(c)
    IN  IF next = "content"
        THEN Completed(p, c)
        ELSE /\ pc' = [pc EXCEPT ![p] = next]
             /\ call' = [call EXCEPT ![p] = c]

\* the arguments of a call on message m, read from the row as it is stored now
NewCall(entry, m, apply_markdown) ==
    [IdleCall EXCEPT
        !.entry = entry, !.m = m, !.apply_markdown = apply_markdown,
        !.message = IF entry = "build_dict_from_raw_db_row" THEN "None" ELSE "obj",
        !.msg_rendered_content = db[m].rendered_content,
        !.msg_rendered_content_version = db[m].rendered_content_version,
        !.arg_rendered_content = db[m].rendered_content,
        !.rendered_content = db[m].rendered_content,
        !.rendered_content_version = db[m].rendered_content_version,
        !.outcome = "running"]

\* message_to_dict_json(message, apply_markdown) is called: the decorator runs first
CallCached(p, m, apply_markdown) ==
    /\ pc[p] = "idle"
    /\ db[m].exists
    /\ pc' = [pc EXCEPT ![p] = "cache_get"]
    /\ call' = [call EXCEPT ![p] = NewCall("message_to_dict_json", m, apply_markdown)]
    /\ UNCHANGED <<bugdown_version, msgs, db, cache>>

\* to_dict_uncached_helper(message, apply_markdown), lines 50-74
CallRecord(p, m, apply_markdown) ==
    /\ pc[p] = "idle"
    /\ db[m].exists
    /\ StartBuild(p, NewCall("to_dict_uncached_helper", m, apply_markdown))
    /\ UNCHANGED <<bugdown_version, msgs, db, cache>>

\* build_dict_from_raw_db_row(row, apply_markdown), lines 77-105
CallRow(p, m, apply_markdown) ==
    /\ pc[p] = "idle"
    /\ db[m].exists
    /\ StartBuild(p, NewCall("build_dict_from_raw_db_row", m, apply_markdown))
    /\ UNCHANGED <<bugdown_version, msgs, db, cache>>

\* a lookup that takes an entry rendered by an older renderer for a miss
CacheGet_Revalidates(p) ==
    /\ pc[p] = "cache_get"
    /\ LET c == call[p]
           e == cache[to_dict_cache_key(c.m, c.apply_markdown)]
       IN  IF /\ e.present
              /\ ~(/\ c.apply_markdown
                   /\ ujson_loads(e.val.zlib.utf8).dict.content.str.ver < bugdown_version)
           THEN /\ pc' = [pc EXCEPT ![p] = AfterJson(c)]
                /\ call' = [call EXCEPT ![p] =
                       [c EXCEPT !.result = e.val, !.outcome = "hit"]]
           ELSE StartBuild(p, c)
    /\ UNCHANGED <<bugdown_version, msgs, db, cache>>

\* cache_with_key: the lookup; a live entry is returned as it is, else the build starts
CacheGet(p) ==
    /\ pc[p] = "cache_get"
    /\ LET c == call[p]
           e == cache[to_dict_cache_key(c.m, c.apply_markdown)]
       IN  IF e.present
           THEN /\ pc' = [pc EXCEPT ![p] = AfterJson(c)]
                /\ call' = [call EXCEPT ![p] =
                       [c EXCEPT !.result = e.val, !.outcome = "hit"]]
           ELSE StartBuild(p, c)
    /\ UNCHANGED <<bugdown_version, msgs, db, cache>>

\* a re-fetch that goes on without the row
Fetch_IgnoresMissing(p) ==
    /\ pc[p] = "fetch"
    /\ pc' = [pc EXCEPT ![p] = "render"]
    /\ call' = [call EXCEPT ![p] =
           [call[p] EXCEPT !.message = "obj", !.n_fetch = call[p].n_fetch + 1]]
    /\ UNCHANGED <<bugdown_version, msgs, db, cache>>

\* re_render_content_for_management_command(message), lines 216-226: the assert
\* of need_to_render_content, then the render and the save of lines 227-230
CallReRender(p, m) ==
    /\ pc[p] = "idle"
    /\ db[m].exists
    /\ LET c == NewCall("re_render_content_for_management_command", m, TRUE)
       IN  IF need_to_render_content(c.msg_rendered_content,
                                     c.msg_rendered_content_version, bugdown_version)
           THEN /\ pc' = [pc EXCEPT ![p] = "render"]
                /\ call' = [call EXCEPT ![p] = c]
           ELSE /\ pc' = [pc EXCEPT ![p] = "done"]
                /\ call' = [call EXCEPT ![p] = [c EXCEPT !.outcome = "AssertionError"]]
    /\ UNCHANGED <<bugdown_version, msgs, db, cache>>

\* line 195: Message.objects.select_related().get(id=message_id)
Fetch(p) ==
    /\ pc[p] = "fetch"
    /\ LET c == call[p]
       IN  IF db[c.m].exists
           THEN /\ pc' = [pc EXCEPT ![p] = "render"]
                /\ call' = [call EXCEPT ![p] =
                       [c EXCEPT !.message = "obj",
                                 !.msg_rendered_content = db[c.m].rendered_content,
                                 !.msg_rendered_content_version =
                                     db[c.m].rendered_content_version,
                                 !.n_fetch = c.n_fetch + 1]]
           ELSE /\ pc' = [pc EXCEPT ![p] = "done"]
                /\ call' = [call EXCEPT ![p] =
                       [c EXCEPT !.n_fetch = c.n_fetch + 1,
                                 !.outcome = "DoesNotExist"]]
    /\ UNCHANGED <<bugdown_version, msgs, db, cache>>

\* what message.render_markdown(content, sender_realm_domain) may return
RenderOutcomes(m) == {Html(m, bugdown_version), None}

\* lines 199-201 without the assignments to the message object
Render_LocalOnly(p) ==
    /\ pc[p] = "render"
    /\ \E out \in RenderOutcomes(call[p].m) :
          call' = [call EXCEPT ![p] =
              [call[p] EXCEPT !.rendered_content = out,
                              !.n_render = call[p].n_render + 1]]
    /\ pc' = [pc EXCEPT ![p] = "save"]
    /\ UNCHANGED <<bugdown_version, msgs, db, cache>>

\* lines 199-201 (and 227-229): render, and set the two fields of the message object
Render(p) ==
    /\ pc[p] = "render"
    /\ \E out \in RenderOutcomes(call[p].m) :
          call' = [call EXCEPT ![p] =
              [call[p] EXCEPT !.rendered_content = out,
                              !.msg_rendered_content = out,
                              !.msg_rendered_content_version = bugdown_version,
                              !.n_render = call[p].n_render + 1]]
    /\ pc' = [pc EXCEPT ![p] = "save"]
    /\ UNCHANGED <<bugdown_version, msgs, db, cache>>

\* a save that writes the body and leaves the version of the row as it was
Save_BodyOnly(p) ==
    /\ pc[p] = "save"
    /\ LET c == [call[p] EXCEPT !.n_save = call[p].n_save + 1]
       IN  \/ /\ db[c.m].exists
              /\ db' = [db EXCEPT ![c.m] =
                     [@ EXCEPT !.rendered_content = c.msg_rendered_content]]
              /\ Completed(p, [c EXCEPT !.saved = "ok"])
           \/ /\ db' = db
              /\ pc' = [pc EXCEPT ![p] = "done"]
              /\ call' = [call EXCEPT ![p] = [c EXCEPT !.saved = "failed", !.outcome = "SaveFailed"]]
    /\ UNCHANGED <<bugdown_version, msgs, cache>>

\* line 202 (and 230): message.save_rendered_content() writes the two fields to the row, or
\* raises; nothing in build_message_dict catches what it raises
Save(p) ==
    /\ pc[p] = "save"
    /\ LET c == [call[p] EXCEPT !.n_save = call[p].n_save + 1]
       IN  \/ /\ db[c.m].exists
              /\ db' = [db EXCEPT ![c.m] =
                     [@ EXCEPT !.rendered_content = c.msg_rendered_content,
                               !.rendered_content_version =
                                   c.msg_rendered_content_version]]
              /\ Completed(p, [c EXCEPT !.saved = "ok"])
           \/ /\ db' = db
              /\ pc' = [pc EXCEPT ![p] = "done"]
              /\ call' = [call EXCEPT ![p] = [c EXCEPT !.saved = "failed", !.outcome = "SaveFailed"]]
    /\ UNCHANGED <<bugdown_version, msgs, cache>>

\* a store that keeps the entry the key already has (add, not set)
CacheSet_AddIfAbsent(p) ==
    /\ pc[p] = "cache_set"
    /\ LET c == call[p]
           k == to_dict_cache_key(c.m, c.apply_markdown)
       IN  /\ cache' = IF cache[k].present THEN cache
                       ELSE [cache EXCEPT ![k] =
                                [present |-> TRUE, val |-> c.result, ttl |-> CACHE_TIMEOUT]]
           /\ call' = [call EXCEPT ![p] =
                  [c EXCEPT !.n_cache_set = c.n_cache_set + 1, !.outcome = "returned"]]
    /\ pc' = [pc EXCEPT ![p] = AfterJson(call[p])]
    /\ UNCHANGED <<bugdown_version, msgs, db>>

\* cache_with_key: cache_set(key, val, timeout=3600*24), then return val
CacheSet(p) ==
    /\ pc[p] = "cache_set"
    /\ LET c == call[p]
       IN  /\ cache' = [cache EXCEPT ![to_dict_cache_key(c.m, c.apply_markdown)] =
                  [present |-> TRUE, val |-> c.result, ttl |-> CACHE_TIMEOUT]]
           /\ call' = [call EXCEPT ![p] =
                  [c EXCEPT !.n_cache_set = c.n_cache_set + 1, !.outcome = "returned"]]
    /\ pc' = [pc EXCEPT ![p] = AfterJson(call[p])]
    /\ UNCHANGED <<bugdown_version, msgs, db>>

\* line 35: message_to_dict decodes the bytes message_to_dict_json gave it
Extract(p) ==
    /\ pc[p] = "extract"
    /\ call' = [call EXCEPT ![p] =
           [call[p] EXCEPT !.result =
               [kind |-> "dict", dict |-> extract_message_dict(call[p].result)]]]
    /\ pc' = [pc EXCEPT ![p] = "done"]
    /\ UNCHANGED <<bugdown_version, msgs, db, cache>>

\* message_to_dict(message, apply_markdown), lines 32-35
CallDict(p, m, apply_markdown) ==
    /\ pc[p] = "idle"
    /\ db[m].exists
    /\ pc' = [pc EXCEPT ![p] = "cache_get"]
    /\ call' = [call EXCEPT ![p] = NewCall("message_to_dict", m, apply_markdown)]
    /\ UNCHANGED <<bugdown_version, msgs, db, cache>>

\* the caller has the result (or the exception): the worker is free again
Return(p) ==
    /\ pc[p] = "done"
    /\ pc' = [pc EXCEPT ![p] = "idle"]
    /\ call' = [call EXCEPT ![p] = IdleCall]
    /\ UNCHANGED <<bugdown_version, msgs, db, cache>>

(* --------------------------- the environment --------------------------- *)

\* a new renderer is deployed: bugdown.version is a module constant, so the
\* workers restart with it and no call is under way
BumpVersion ==
    /\ bugdown_version < MaxVersion
    /\ \A p \in Procs : pc[p] = "idle"
    /\ bugdown_version' = bugdown_version + 1
    /\ UNCHANGED <<msgs, db, cache, pc, call>>

\* the row of message m is deleted
DeleteMessage(m) ==
    /\ db[m].exists
    /\ db' = [db EXCEPT ![m] = [Unrendered EXCEPT !.exists = FALSE]]
    /\ UNCHANGED <<bugdown_version, msgs, cache, pc, call>>

\* TickSeconds pass: every entry has that much less to live, and is gone at 0
Tick ==
    /\ \E k \in Keys : cache[k].present
    /\ cache' = [k \in Keys |->
           IF cache[k].present /\ cache[k].ttl > TickSeconds
           THEN [cache[k] EXCEPT !.ttl = @ - TickSeconds]
           ELSE NoEntry]
    /\ UNCHANGED <<bugdown_version, msgs, db, pc, call>>

Next ==
    \/ \E p \in SeqProcs, m \in MsgIds, a \in BOOLEAN : CallDict(p, m, a)
    \/ \E p \in SeqProcs, m \in MsgIds, a \in BOOLEAN : CallCached(p, m, a)
    \/ \E p \in SeqProcs, m \in MsgIds, a \in BOOLEAN : CallRecord(p, m, a)
    \/ \E p \in SeqProcs, m \in MsgIds, a \in BOOLEAN : CallRow(p, m, a)
    \/ \E p \in SeqProcs, m \in MsgIds : CallReRender(p, m)
    \/ \E p \in SeqProcs : CacheGet(p)
    \/ \E p \in SeqProcs : Fetch(p)
    \/ \E p \in SeqProcs : Render(p)
    \/ \E p \in SeqProcs : Save(p)
    \/ \E p \in SeqProcs : CacheSet(p)
    \/ \E p \in SeqProcs : Extract(p)
    \/ \E p \in SeqProcs : Return(p)
    \/ BumpVersion
    \/ \E m \in MsgIds : DeleteMessage(m)
    \/ Tick

Spec == Init /\ [][Next]_vars

(* ---------------- the builder over every sender and recipient ---------- *)

\* message 1 has any sender and any recipient; it is built from its row
RecipInit ==
    /\ bugdown_version = 1
    /\ msgs \in {[MainRows EXCEPT ![1] = r] : r \in MessageRows}
    /\ db = [m \in MsgIds |-> Unrendered]
    /\ cache = [k \in Keys |-> NoEntry]
    /\ pc = [p \in Procs |-> "idle"]
    /\ call = [p \in Procs |-> IdleCall]

RecipNext ==
    \/ \E a \in BOOLEAN : CallRow(1, 1, a)
    \/ Fetch(1)
    \/ Render(1)
    \/ Save(1)
    \/ Return(1)

RecipSpec == RecipInit /\ [][RecipNext]_vars

(* ------------------- two workers on the same message ------------------ *)

\* the message the two workers build at the same time
SharedMsg == 1

\* the cached accessor and the row build, called by either worker while the other
\* is anywhere in its own call; the steps of the two interleave freely
ConcNext ==
    \/ \E p \in Procs, a \in BOOLEAN : CallCached(p, SharedMsg, a)
    \/ \E p \in Procs, a \in BOOLEAN : CallRow(p, SharedMsg, a)
    \/ \E p \in Procs : CacheGet(p)
    \/ \E p \in Procs : Fetch(p)
    \/ \E p \in Procs : Render(p)
    \/ \E p \in Procs : Save(p)
    \/ \E p \in Procs : CacheSet(p)
    \/ \E p \in Procs : Return(p)
    \/ BumpVersion

ConcSpec == Init /\ [][ConcNext]_vars

(* ---------------- the record build next to the row build -------------- *)

\* the message built from its record, and its twin built from a flat row
RecordMsg == 1
RowMsg == 2

\* a stored render of message m: none, or of version v, HTML or None
StoredRender(m, v, html) ==
    IF v = NoVersion THEN Unrendered
    ELSE [exists |-> TRUE,
          rendered_content |-> IF html THEN Html(m, v) ELSE None,
          rendered_content_version |-> v]

\* the two messages have the same fields and the same stored render, under any
\* renderer version
TwinInit ==
    /\ bugdown_version \in 1..MaxVersion
    /\ \E r \in {MainRows[1], MainRows[2]} : msgs = [m \in MsgIds |-> r]
    /\ \E v \in 0..bugdown_version, html \in BOOLEAN :
          db = [m \in MsgIds |-> StoredRender(m, v, html)]
    /\ cache = [k \in Keys |-> NoEntry]
    /\ pc = [p \in Procs |-> "idle"]
    /\ call = [p \in Procs |-> IdleCall]

\* one worker builds the first message from its record, the other builds the
\* twin from a row; both stay at the end of their call
TwinNext ==
    \/ \E a \in BOOLEAN : CallRecord(1, RecordMsg, a)
    \/ \E a \in BOOLEAN : CallRow(2, RowMsg, a)
    \/ Fetch(2)
    \/ \E p \in Procs : Render(p)
    \/ \E p \in Procs : Save(p)

TwinSpec == TwinInit /\ [][TwinNext]_vars

(* --------------- the codec on JSON-representable values --------------- *)

\* the scalars: an int, text (also text that reads like a literal or a number),
\* the booleans and None
PyScalars ==
    {PyInt(1), PyStr("1"), PyStr("true"), PyBool(TRUE), PyBool(FALSE), PyNone}

\* what a list or a nested dict holds: scalars, a dict
PyItems == PyScalars \cup {PyDict([a |-> PyInt(1)])}

\* the lists of at most MaxListLen items
PyLists ==
    UNION {{PyList(s) : s \in [1..n -> PyItems]} : n \in 0..MaxListLen}

\* the dicts over a set of keys with values from a set
PyDictsOver(keys, values) ==
    UNION {{PyDict(f) : f \in [ks -> values]} : ks \in SUBSET keys}

\* the JSON-representable values: scalars, lists, dicts with string keys
PyValues == PyScalars \cup PyLists \cup PyDictsOver({"a"}, PyItems)

\* the dicts the codec is run on: string keys, JSON-representable values
PyDicts ==
    {PyDict(f) :
        f \in UNION {[ks -> PyValues] : ks \in {{}, {"a"}}}
           \cup {[a |-> x, b |-> y] : x \in PyValues, y \in {PyNone, PyStr("1")}}
           \cup {[b |-> y] : y \in PyScalars}}

\* stringify_message_dict(message_dict) is called on a dict
CallStringify(p, d) ==
    /\ pc[p] = "idle"
    /\ pc' = [pc EXCEPT ![p] = "stringify"]
    /\ call' = [call EXCEPT ![p] =
           [IdleCall EXCEPT !.entry = "stringify_message_dict",
                            !.arg = [kind |-> "dict", dict |-> d],
                            !.outcome = "running"]]
    /\ UNCHANGED <<bugdown_version, msgs, db, cache>>

\* lines 28-30: the bytes of the dict
Stringify(p) ==
    /\ pc[p] = "stringify"
    /\ call' = [call EXCEPT ![p] =
           [call[p] EXCEPT !.result = stringify_message_dict(call[p].arg.dict),
                           !.outcome = "returned"]]
    /\ pc' = [pc EXCEPT ![p] = "extract"]
    /\ UNCHANGED <<bugdown_version, msgs, db, cache>>

\* the codec on its own (the first worker), and inside message_to_dict on the
\* edited message (the second)
CodecNext ==
    \/ \E d \in PyDicts : CallStringify(1, d)
    \/ Stringify(1)
    \/ Extract(1)
    \/ Return(1)
    \/ \E a \in BOOLEAN : CallDict(2, 2, a)
    \/ CacheGet(2)
    \/ Render(2)
    \/ Save(2)
    \/ CacheSet(2)
    \/ Extract(2)
    \/ Return(2)

CodecSpec == Init /\ [][CodecNext]_vars

(* ------------------------------ the claims ----------------------------- *)

\* the calls that run build_message_dict: all but a hit of the cached accessor
Builds(p) == call[p].entry \in Entries /\ call[p].outcome # "hit"

\* the call of worker p is over
Done(p) == pc[p] = "done"

\* the call of worker p handed a value back to its caller
Returned(p) == Done(p) /\ call[p].outcome = "returned"

\* display_recipient read back from its Python values
RecipientOfPy(x) ==
    IF PyType(x) = "str" THEN StreamName(x.str)
    ELSE [kind |-> "list", name |-> "",
          list |-> [i \in DOMAIN x.list |->
                       [k \in DOMAIN x.list[i].dict |-> PyVal(x.list[i].dict[k])]]]

\* a message dict read back from its Python values, for the formulas below
ObjOfPy(d) ==
    [k \in DOMAIN d.dict |->
        IF k = "display_recipient" THEN RecipientOfPy(d.dict[k])
        ELSE IF k = "subject_links"
        THEN [i \in DOMAIN d.dict[k].list |-> d.dict[k].list[i].str]
        ELSE IF k = "edit_history" THEN d.dict[k]
        ELSE PyVal(d.dict[k])]

\* the dict build_message_dict returned in a call that returned
DictOf(c) ==
    ObjOfPy(IF c.result.kind = "dict" THEN c.result.dict
            ELSE extract_message_dict(c.result))

\* the stored render of the message of call c is the one the call was given
StoredAsGiven(c) ==
    db[c.m].exists =>
        /\ db[c.m].rendered_content = c.arg_rendered_content
        /\ db[c.m].rendered_content_version = c.rendered_content_version

\* C1: a build with apply_markdown = false never fetches, renders or saves, so
\* the stored render stays as it was, whatever it was; and the dict it returns
\* has the raw body as content, with content_type "text/x-markdown".
C1_MarkdownOff ==
    \A p \in Procs :
        (Builds(p) /\ ~call[p].apply_markdown) =>
            /\ pc[p] \notin {"fetch", "render", "save"}
            /\ call[p].n_fetch = 0 /\ call[p].n_render = 0 /\ call[p].n_save = 0
            /\ StoredAsGiven(call[p])
            /\ Done(p) =>
                  /\ call[p].outcome = "returned"
                  /\ DictOf(call[p]).content = RawBody(call[p].m)
                  /\ DictOf(call[p]).content_type = "text/x-markdown"

\* C1 witness: a build with apply_markdown = false has returned, for a message
\* whose stored render is stale
C1_Witness ==
    \E p \in Procs :
        /\ Returned(p) /\ Builds(p) /\ ~call[p].apply_markdown
        /\ call[p].arg_rendered_content # None
        /\ call[p].rendered_content_version < bugdown_version

\* the stored rendered version the call was given is lower than the current one
StaleVersion(c) ==
    /\ c.rendered_content_version # NoVersion
    /\ c.rendered_content_version < bugdown_version

\* C2: a build with apply_markdown = true whose stored rendered version is lower
\* than the current renderer version, and which no failure of the record store
\* cuts short (the re-fetch finding no row, the save failing), invokes render
\* exactly once and returns a dict with content_type "text/html"; no such build
\* invokes render twice, and one that reached the save has rendered once.
C2_StaleRendersOnce ==
    \A p \in Procs :
        (Builds(p) /\ call[p].apply_markdown /\ StaleVersion(call[p])) =>
            /\ call[p].n_render <= 1
            /\ (Done(p) /\ call[p].outcome # "DoesNotExist") => call[p].n_render = 1
            /\ (Done(p) /\ call[p].outcome \notin {"DoesNotExist", "SaveFailed"}) =>
                  /\ call[p].outcome = "returned"
                  /\ DictOf(call[p]).content_type = "text/html"

\* C2 witness: such a build has returned, given a stored body of an older version
C2_Witness ==
    \E p \in Procs :
        /\ Returned(p) /\ Builds(p) /\ call[p].apply_markdown
        /\ StaleVersion(call[p])
        /\ call[p].arg_rendered_content # None
        /\ call[p].n_render = 1

\* the row of the message of call c
RowOf(c) == msgs[c.m]

\* the call is on a private message whose resolver gives exactly one participant
OneParticipant(c) ==
    /\ RowOf(c).recipient_type \in {"PERSONAL", "HUDDLE"}
    /\ Len(RowOf(c).resolved.list) = 1

\* the emails of a list of descriptors, in its order
Emails(list) == [i \in DOMAIN list |-> list[i].email]

\* C3 as stated: with exactly one resolved participant, display_recipient has
\* exactly two entries, one of them the sender's descriptor, for every sender,
\* the resolved participant included.
C3_AlwaysTwoEntries ==
    \A p \in Procs :
        (Returned(p) /\ OneParticipant(call[p])) =>
            LET dr == DictOf(call[p]).display_recipient.list
            IN  /\ Len(dr) = 2
                /\ \E i \in DOMAIN dr : dr[i] = SenderDescriptor(RowOf(call[p]).sender)

\* C3 amended: with exactly one resolved participant, display_recipient has
\* exactly two entries, the participant and the sender's descriptor, when the
\* sender's email differs from the participant's; when the two emails are equal
\* (a self-message) it is the resolver's one-entry sequence, unchanged.
C3_TwoEntriesUnlessSelf ==
    \A p \in Procs :
        (Returned(p) /\ OneParticipant(call[p])) =>
            LET dr == DictOf(call[p]).display_recipient.list
                first == RowOf(call[p]).resolved.list[1]
                recip == SenderDescriptor(RowOf(call[p]).sender)
            IN  IF recip.email # first.email
                THEN /\ Len(dr) = 2
                     /\ \E i \in DOMAIN dr : dr[i] = recip
                     /\ \E i \in DOMAIN dr : dr[i] = first
                ELSE dr = <<first>>

\* C3 witness: a huddle with one resolved participant, sent by a user with a
\* greater email, has been built with two entries
C3_Witness ==
    \E p \in Procs :
        /\ Returned(p) /\ OneParticipant(call[p])
        /\ RowOf(call[p]).recipient_type = "HUDDLE"
        /\ StrLess(RowOf(call[p]).resolved.list[1].email,
                   EmailOf(RowOf(call[p]).sender))
        /\ Len(DictOf(call[p]).display_recipient.list) = 2

\* C4: for a PERSONAL recipient resolving to one participant whose email differs
\* from the sender's, display_recipient is the participant and the sender's
\* descriptor in ascending order of email; so it shows the same emails in the same
\* order as the message the participant sends to the sender.
C4_AscendingEmailOrder ==
    \A p \in Procs :
        LET c == call[p]
            first == RowOf(c).resolved.list[1]
            recip == SenderDescriptor(RowOf(c).sender)
            dr == DictOf(c).display_recipient.list
            back == DisplayRecipient("PERSONAL", ParticipantList(<<recip.id>>),
                                     first.id).list
        IN  (/\ Returned(p)
             /\ RowOf(c).recipient_type = "PERSONAL"
             /\ Len(RowOf(c).resolved.list) = 1
             /\ first.email # recip.email) =>
                /\ Len(dr) = 2
                /\ {dr[1], dr[2]} = {first, recip}
                /\ StrLess(dr[1].email, dr[2].email)
                /\ Emails(dr) = Emails(back)

\* C4 witness: "b" has sent a personal message to "a", and the dict lists "a" first
C4_Witness ==
    \E p \in Procs :
        /\ Returned(p)
        /\ RowOf(call[p]).recipient_type = "PERSONAL"
        /\ RowOf(call[p]).sender = 2
        /\ RowOf(call[p]).resolved = ParticipantList(<<1>>)
        /\ Emails(DictOf(call[p]).display_recipient.list) = <<EmailOf(1), EmailOf(2)>>

\* the cache key of call c
KeyOf(c) == to_dict_cache_key(c.m, c.apply_markdown)

\* call c has made no fetch, no render, no save and no cache store
NoSideEffect(c) ==
    c.n_fetch = 0 /\ c.n_render = 0 /\ c.n_save = 0 /\ c.n_cache_set = 0

\* C5: when render returns None in a build with apply_markdown = true, nothing is
\* raised for it: the build goes on to the save, and unless the save itself fails
\* (C6) it returns a dict whose content is the fallback notice and whose
\* content_type is "text/html".
C5_SentinelFallback ==
    \A p \in Procs :
        (/\ Builds(p) /\ call[p].apply_markdown
         /\ call[p].n_render = 1 /\ call[p].rendered_content = None) =>
            /\ pc[p] \in {"save", "cache_set", "extract", "done"}
            /\ pc[p] = "save" => call[p].outcome = "running"
            /\ (Done(p) /\ call[p].saved # "failed") =>
                  /\ call[p].outcome = "returned"
                  /\ DictOf(call[p]).content = FallbackNotice
                  /\ DictOf(call[p]).content_type = "text/html"
                  /\ DictOf(call[p]).id = call[p].m

\* C5 witness: a build whose render returned None has returned the fallback notice
C5_Witness ==
    \E p \in Procs :
        /\ Returned(p) /\ call[p].apply_markdown
        /\ call[p].n_render = 1 /\ call[p].rendered_content = None
        /\ DictOf(call[p]).content = FallbackNotice

\* C6 as stated: a build whose save_rendered_content failed still returns the
\* dict with the freshly rendered body and "text/html", and the stored render is
\* as it was.
C6_SaveFailureTolerated ==
    \A p \in Procs :
        (Done(p) /\ call[p].saved = "failed") =>
            /\ call[p].outcome = "returned"
            /\ DictOf(call[p]).content =
                   (IF call[p].rendered_content # None
                    THEN call[p].rendered_content ELSE FallbackNotice)
            /\ DictOf(call[p]).content_type = "text/html"
            /\ StoredAsGiven(call[p])

\* C7: a lookup that finds an entry ends the call with the stored bytes, with no
\* fetch, render, save or cache store, and leaves the record store and the cache
\* as they are, whatever the renderer version and the stored render are by then.
C7_HitReturnsStored ==
    [][\A p \in Procs :
          (/\ pc[p] = "cache_get"
           /\ cache[KeyOf(call[p])].present
           /\ pc'[p] # "cache_get") =>
              /\ pc'[p] = AfterJson(call[p])
              /\ call'[p].outcome = "hit"
              /\ call'[p].result = cache[KeyOf(call[p])].val
              /\ NoSideEffect(call'[p])
              /\ db' = db
              /\ cache' = cache]_vars

\* C7 witness: a hit has returned HTML of an older renderer than the current one
C7_Witness ==
    \E p \in Procs :
        /\ Done(p) /\ call[p].outcome = "hit" /\ call[p].apply_markdown
        /\ DictOf(call[p]).content.kind = "html"
        /\ DictOf(call[p]).content.ver < bugdown_version
        /\ db[call[p].m].rendered_content # DictOf(call[p]).content

\* C8: a miss whose build completes stores the encoded dict it built under the
\* key of (message id, apply_markdown) with 86400 seconds to live and returns the
\* same bytes; an entry changes only by such a store or by expiring; and a lookup
\* that finds the entry returns its bytes: those of the miss that wrote it.
C8_MissStoresAndReturns ==
    /\ [](\A p \in Procs :
            (/\ Done(p) /\ call[p].entry = "message_to_dict_json"
             /\ call[p].outcome \notin {"hit", "SaveFailed"}) =>
                /\ call[p].outcome = "returned"
                /\ call[p].n_cache_set = 1
                /\ call[p].result.kind = "bytes"
                /\ DictOf(call[p]).id = call[p].m)
    /\ [][/\ \A p \in Procs :
               (pc[p] = "cache_set" /\ pc'[p] # "cache_set") =>
                  /\ pc'[p] = AfterJson(call[p])
                  /\ call'[p].result = call[p].result
                  /\ cache'[KeyOf(call[p])] =
                         [present |-> TRUE, val |-> call'[p].result, ttl |-> 86400]
                  /\ \A k \in Keys \ {KeyOf(call[p])} : cache'[k] = cache[k]
          /\ \A k \in Keys :
               cache'[k] # cache[k] =>
                  \/ ~cache'[k].present
                  \/ \E p \in Procs : pc[p] = "cache_set" /\ KeyOf(call[p]) = k
          /\ \A p \in Procs :
               (/\ pc[p] = "cache_get"
                /\ cache[KeyOf(call[p])].present
                /\ pc'[p] # "cache_get") =>
                   call'[p].result = cache[KeyOf(call[p])].val]_vars

\* C8 witness: a miss has returned, and the entry of its key holds the bytes it
\* returned, with the whole TTL ahead
C8_Witness ==
    \E p \in Procs :
        /\ Returned(p) /\ call[p].entry = "message_to_dict_json"
        /\ call[p].n_cache_set = 1
        /\ cache[KeyOf(call[p])] =
               [present |-> TRUE, val |-> call[p].result, ttl |-> 86400]

\* C9: when the re-fetch of line 195 finds no row, the call ends there with the
\* failure: no dict, no render, no save, no cache store, and the record store and
\* the cache are as they were.
C9_RecordNotFoundPropagates ==
    [][\A p \in Procs :
          (/\ pc[p] = "fetch"
           /\ ~db[call[p].m].exists
           /\ pc'[p] # "fetch") =>
              /\ pc'[p] = "done"
              /\ call'[p].outcome = "DoesNotExist"
              /\ call'[p].result = NoResult
              /\ call'[p].n_render = 0
              /\ call'[p].n_save = 0
              /\ call'[p].n_cache_set = 0
              /\ db' = db
              /\ cache' = cache]_vars

\* C9 witness: a build from a flat row has ended with the re-fetch finding no row
C9_Witness ==
    \E p \in Procs :
        /\ Done(p) /\ call[p].outcome = "DoesNotExist"
        /\ call[p].entry = "build_dict_from_raw_db_row"
        /\ call[p].apply_markdown
        /\ call[p].n_fetch = 1
        /\ ~db[call[p].m].exists

\* C10: in every dict a build returns, content_type is "text/html" exactly when
\* content is a rendered body or the fallback notice, "text/x-markdown" exactly
\* when content is the raw body, and "text/html" exactly when apply_markdown is
\* true.
C10_MatchedPair ==
    \A p \in Procs :
        (Returned(p) /\ Builds(p)) =>
            LET d == DictOf(call[p])
            IN  /\ d.content_type \in {"text/html", "text/x-markdown"}
                /\ d.content.kind \in {"html", "fallback", "raw"}
                /\ d.content_type = "text/html" <=> d.content.kind \in {"html", "fallback"}
                /\ d.content_type = "text/x-markdown" <=> d.content = RawBody(call[p].m)
                /\ d.content_type = "text/html" <=> call[p].apply_markdown

\* C10 witness: a build has returned a stored body, rendered by an earlier call
C10_Witness ==
    \E p \in Procs :
        /\ Returned(p) /\ Builds(p) /\ call[p].apply_markdown
        /\ call[p].n_render = 0
        /\ DictOf(call[p]).content.kind = "html"
        /\ DictOf(call[p]).content_type = "text/html"

\* the call of worker p gave its caller a dict, built now or found in the cache
HasDict(p) == Done(p) /\ call[p].outcome \in {"returned", "hit"}

\* the two keys of an edited message
EditKeys == {"last_edit_timestamp", "edit_history"}

\* C11: the dict of a message whose last_edit_time is set has both
\* last_edit_timestamp, the integer timestamp of last_edit_time, and edit_history,
\* the list parsed from the stored JSON text and not that text; the dict of a
\* message whose last_edit_time is None has neither key; no dict has exactly one.
C11_EditFieldsTogether ==
    \A p \in Procs :
        HasDict(p) =>
            LET d == DictOf(call[p])
                row == RowOf(call[p])
            IN  /\ Cardinality(EditKeys \cap DOMAIN d) # 1
                /\ IF row.last_edit_time # None
                   THEN /\ EditKeys \subseteq DOMAIN d
                        /\ d.last_edit_timestamp = row.last_edit_time.epoch
                        /\ PyType(d.edit_history) = "list"
                        /\ d.edit_history = ujson_loads(row.edit_history)
                        /\ d.edit_history.list[1].dict.prev_subject = PyStr("old")
                   ELSE EditKeys \cap DOMAIN d = {}

\* an edited message and an unedited one have both been built into dicts
C11_Witness ==
    /\ \E p \in Procs :
          /\ HasDict(p)
          /\ RowOf(call[p]).last_edit_time # None
          /\ call[p].entry = "build_dict_from_raw_db_row"
          /\ EditKeys \subseteq DOMAIN DictOf(call[p])
          /\ PyType(DictOf(call[p]).edit_history) = "list"
          /\ Len(DictOf(call[p]).edit_history.list) = 1
    /\ \E m \in MsgIds : msgs[m].last_edit_time = None

C13_StreamNameUnchanged ==
    \A p \in Procs :
        Returned(p) =>
            LET d == DictOf(call[p])
                row == RowOf(call[p])
            IN  IF row.recipient_type = "STREAM"
                THEN /\ d.type = "stream"
                     /\ d.display_recipient = row.resolved
                     /\ d.display_recipient.kind = "name"
                     /\ d.display_recipient.list = <<>>
                ELSE d.type = "private"

\* a STREAM message to "devel" has been built, with that name in its dict
C13_Witness ==
    \E p \in Procs :
        /\ Returned(p)
        /\ RowOf(call[p]).recipient_type = "STREAM"
        /\ DictOf(call[p]).type = "stream"
        /\ DictOf(call[p]).display_recipient = StreamName("devel")

\* C20: for a PERSONAL or HUDDLE message whose resolver gives two or more
\* participants, display_recipient is the resolver's sequence unchanged: the same
\* entries in the stored order, not sorted by email, the sender not added.
C20_LongListUnchanged ==
    \A p \in Procs :
        (/\ Returned(p)
         /\ RowOf(call[p]).recipient_type \in {"PERSONAL", "HUDDLE"}
         /\ Len(RowOf(call[p]).resolved.list) # 1) =>
            DictOf(call[p]).display_recipient = RowOf(call[p]).resolved

\* a huddle stored as "b", "a", sent by a third user, has been built: the list is
\* still "b", "a"
C20_Witness ==
    \E p \in Procs :
        /\ Returned(p)
        /\ RowOf(call[p]).recipient_type = "HUDDLE"
        /\ RowOf(call[p]).resolved = ParticipantList(<<2, 1>>)
        /\ RowOf(call[p]).sender = 3
        /\ Emails(DictOf(call[p]).display_recipient.list) = <<EmailOf(2), EmailOf(1)>>

\* the call of worker p came back without raising
CameBack(p) == Done(p) /\ call[p].outcome \in {"returned", "rerendered"}

\* C14: in every call that invokes render, run one at a time, the steps come in
\* the order render, save, read of the body into the dict: nothing is saved
\* before the render, and the dict is filled only after a save that succeeded.
\* When the call comes back, the stored version of the row is the current
\* renderer version and the stored body is what render returned, which is the
\* content of the dict unless it is None.
C14_RenderSaveRead ==
    \A p \in Procs :
        LET c == call[p]
        IN  /\ c.n_save <= c.n_render
            /\ c.n_render >= 1 =>
                  /\ c.n_render = 1
                  /\ pc[p] = "save" => (c.n_save = 0 /\ c.result = NoResult)
                  /\ c.result # NoResult => (c.n_save = 1 /\ c.saved = "ok")
                  /\ (CameBack(p) /\ db[c.m].exists) =>
                        /\ c.saved = "ok"
                        /\ db[c.m].rendered_content_version = bugdown_version
                        /\ db[c.m].rendered_content = c.rendered_content
                        /\ (Builds(p) /\ c.rendered_content # None) =>
                               DictOf(c).content = c.rendered_content

\* a build from a row whose stored body was of an older version has fetched,
\* rendered, saved and returned the new body
C14_Witness ==
    \E p \in Procs :
        /\ Returned(p)
        /\ call[p].entry = "build_dict_from_raw_db_row"
        /\ call[p].n_fetch = 1 /\ call[p].n_render = 1 /\ call[p].n_save = 1
        /\ call[p].arg_rendered_content # None
        /\ call[p].rendered_content = Html(call[p].m, bugdown_version)
        /\ db[call[p].m].rendered_content = call[p].rendered_content
        /\ DictOf(call[p]).content = call[p].rendered_content

\* the stored render of message m carries the current renderer version: a call
\* that had to render has saved for it since the renderer was deployed
StoredCurrent(m) ==
    db[m].exists /\ db[m].rendered_content_version = bugdown_version

\* C15 as stated: once a render has been saved for a message under the current
\* renderer version, whatever render returned, the stored state no longer needs a
\* render, and a build that reads it invokes neither render nor
\* save_rendered_content.
C15_RenderedStaysRendered ==
    /\ \A m \in MsgIds :
          StoredCurrent(m) =>
              ~need_to_render_content(db[m].rendered_content,
                                      db[m].rendered_content_version, bugdown_version)
    /\ \A p \in Procs :
          (Builds(p) /\ call[p].rendered_content_version = bugdown_version) =>
              (call[p].n_render = 0 /\ call[p].n_save = 0)

\* the stored render of message m is one that a single save leaves: never
\* rendered, or a body (HTML of that version, or None) with its version
MatchedRender(m) ==
    IF db[m].rendered_content_version = NoVersion
    THEN db[m].rendered_content = None
    ELSE db[m].rendered_content \in
             {Html(m, db[m].rendered_content_version), None}

\* C16: while two builds of the same message interleave, every change of the
\* stored render is the save of one build, which writes the body its own render
\* returned together with the current version; so the stored body and version
\* are always a pair one build wrote, and once a build has saved, the stored
\* render is what a single render leaves: an outcome of render with the current
\* version, the last writer's.
C16_PairOfOneBuild ==
    /\ [](\A m \in MsgIds : MatchedRender(m))
    /\ [](\A p \in Procs :
            call[p].saved = "ok" =>
                /\ db[call[p].m].rendered_content_version = bugdown_version
                /\ db[call[p].m].rendered_content \in RenderOutcomes(call[p].m))
    /\ [][\A m \in MsgIds :
            db'[m] # db[m] =>
                \E p \in Procs :
                    /\ pc[p] = "save" /\ call[p].m = m
                    /\ call'[p].saved = "ok"
                    /\ call[p].rendered_content \in RenderOutcomes(m)
                    /\ db'[m].rendered_content = call[p].rendered_content
                    /\ db'[m].rendered_content_version = bugdown_version]_vars

\* both workers found the message unrendered, both rendered and saved, one got
\* HTML and the other None; the stored render is that of one of them
C16_Witness ==
    \E p, q \in Procs :
        /\ p # q
        /\ Returned(p) /\ Returned(q)
        /\ call[p].m = call[q].m
        /\ call[p].arg_rendered_content = None /\ call[q].arg_rendered_content = None
        /\ call[p].n_render = 1 /\ call[q].n_render = 1
        /\ call[p].saved = "ok" /\ call[q].saved = "ok"
        /\ call[p].rendered_content # call[q].rendered_content
        /\ db[call[p].m].rendered_content = call[q].rendered_content
        /\ db[call[p].m].rendered_content_version = bugdown_version

\* the keys of a complete message dict of an unedited message
DictKeys ==
    {"id", "sender_email", "sender_full_name", "sender_short_name",
     "sender_domain", "sender_id", "type", "display_recipient", "recipient_id",
     "subject", "timestamp", "gravatar_hash", "avatar_url", "client",
     "subject_links", "content", "content_type"}

\* bytes that decode, to a complete dict, and are the encoding of that dict
CompletePayload(val) ==
    /\ val.kind = "bytes"
    /\ PyType(extract_message_dict(val)) = "dict"
    /\ DictKeys \subseteq DOMAIN extract_message_dict(val).dict
    /\ stringify_message_dict(extract_message_dict(val)) = val

\* C17: while two misses of message_to_dict_json for the same key interleave,
\* each caller that returns has the complete bytes of the dict its own build
\* made; an entry changes only when one caller stores, and is then exactly that
\* caller's bytes, so it is the last writer's at the end; every entry decodes to
\* a complete dict.
C17_WholePayloads ==
    /\ [](\A k \in Keys : cache[k].present => CompletePayload(cache[k].val))
    /\ [](\A p \in Procs :
            (Returned(p) /\ call[p].entry = "message_to_dict_json") =>
                /\ call[p].result = BuildResult(call[p])
                /\ CompletePayload(call[p].result))
    /\ [][/\ \A k \in Keys :
              cache'[k] # cache[k] =>
                  \E p \in Procs : pc[p] = "cache_set" /\ KeyOf(call[p]) = k
                                                       /\ pc'[p] # "cache_set"
          /\ \A p \in Procs :
              (pc[p] = "cache_set" /\ pc'[p] # "cache_set") =>
                  /\ cache'[KeyOf(call[p])].present
                  /\ cache'[KeyOf(call[p])].val = call[p].result
                  /\ call'[p].result = call[p].result
                  /\ pc'[p] = "done"]_vars

\* two misses for the same key have both stored and returned, with different
\* bytes; the entry holds the bytes of one of them
C17_Witness ==
    \E p, q \in Procs :
        /\ p # q
        /\ Returned(p) /\ Returned(q)
        /\ call[p].entry = "message_to_dict_json"
        /\ call[q].entry = "message_to_dict_json"
        /\ KeyOf(call[p]) = KeyOf(call[q])
        /\ call[p].n_cache_set = 1 /\ call[q].n_cache_set = 1
        /\ call[p].result # call[q].result
        /\ cache[KeyOf(call[p])].present
        /\ cache[KeyOf(call[p])].val = call[q].result

\* the dict is one of message m built with apply_markdown = a
BuiltFor(d, m, a) ==
    /\ d.id = m
    /\ d.content_type = "text/html" <=> a

\* C18: whatever cached accesses came before, the entry under the key of
\* (m, a) decodes to a dict with id m whose content_type is "text/html" exactly
\* when a is true, and a cached access for (m, a), hit or miss, hands back such
\* a dict: no entry of one pair is served for another.
C18_EntryOfItsPair ==
    /\ \A m \in MsgIds, a \in BOOLEAN :
          cache[to_dict_cache_key(m, a)].present =>
              BuiltFor(ObjOfPy(extract_message_dict(cache[to_dict_cache_key(m, a)].val)),
                       m, a)
    /\ \A p \in Procs :
          (HasDict(p) /\ call[p].entry \in CachedEntries) =>
              BuiltFor(DictOf(call[p]), call[p].m, call[p].apply_markdown)

\* with entries stored for both modes of message 2 and for message 1,
\* message_to_dict has been served the entry of (2, true)
C18_Witness ==
    \E p \in Procs :
        /\ HasDict(p)
        /\ call[p].entry = "message_to_dict"
        /\ call[p].outcome = "hit"
        /\ call[p].m = 2 /\ call[p].apply_markdown
        /\ DictOf(call[p]).id = 2
        /\ DictOf(call[p]).content_type = "text/html"
        /\ cache[to_dict_cache_key(2, FALSE)].present
        /\ cache[to_dict_cache_key(1, TRUE)].present

\* a body of the twin read as the body of message m
BodyFor(m, body) ==
    IF body.kind \in {"raw", "html"} THEN [body EXCEPT !.of = m] ELSE body

\* a dict of the twin read as a dict of message m: the id, and what the model
\* derives from the id
DictFor(m, d) ==
    [d EXCEPT !.id = m, !.recipient_id = m, !.subject = [@ EXCEPT !.of = m],
              !.timestamp = datetime_to_timestamp(DateTime(m)),
              !.content = BodyFor(m, @)]

\* line 183 for the arguments of call c
NeedsRender(c) ==
    /\ c.apply_markdown
    /\ need_to_render_content(c.arg_rendered_content, c.rendered_content_version,
                              bugdown_version)

\* C19: a build from a flat row and a build from a record, given the same
\* fields, the same apply_markdown and the same stored render, return equal
\* dicts and leave equal stored renders (render returning the same for both);
\* the row build fetches the record exactly once when apply_markdown is true
\* and the stored render needs a render, and never otherwise; the record build
\* never fetches.
C19_RowLikeRecord ==
    LET rec == call[1]
        row == call[2]
    IN  /\ rec.n_fetch = 0 /\ pc[1] # "fetch"
        /\ row.entry = "build_dict_from_raw_db_row" =>
              /\ row.n_fetch <= 1
              /\ ~NeedsRender(row) => (row.n_fetch = 0 /\ pc[2] # "fetch")
              /\ (NeedsRender(row) /\ pc[2] # "fetch") => row.n_fetch = 1
        /\ (/\ Done(1) /\ Done(2)
            /\ rec.apply_markdown = row.apply_markdown) =>
              /\ rec.n_render = row.n_render
              /\ (/\ rec.rendered_content = BodyFor(RecordMsg, row.rendered_content)
                  /\ rec.saved = row.saved) =>
                    /\ rec.outcome = row.outcome
                    /\ db[RecordMsg].rendered_content =
                           BodyFor(RecordMsg, db[RowMsg].rendered_content)
                    /\ db[RecordMsg].rendered_content_version =
                           db[RowMsg].rendered_content_version
                    /\ Returned(1) => DictOf(rec) = DictFor(RecordMsg, DictOf(row))

\* an edited message with a stored body of an older version has been built both
\* ways with apply_markdown = true: both rendered the new body, and the row
\* build fetched once
C19_Witness ==
    /\ Returned(1) /\ Returned(2)
    /\ call[1].apply_markdown /\ call[2].apply_markdown
    /\ msgs[RowMsg].last_edit_time # None
    /\ call[2].arg_rendered_content = Html(RowMsg, 1)
    /\ call[1].rendered_content = Html(RecordMsg, 2)
    /\ call[2].rendered_content = Html(RowMsg, 2)
    /\ call[2].n_fetch = 1 /\ call[1].n_fetch = 0
    /\ DictOf(call[1]).content = Html(RecordMsg, 2)
    /\ DictOf(call[1]) = DictFor(RecordMsg, DictOf(call[2]))

====
